---- MODULE Spec2Model ----
(***************************************************************************)
(* Model of matdata.py: the two adapters load_scipy / load_h5py and the    *)
(* MatData facade (constructor dispatch, fallback and accessors).          *)
(*                                                                         *)
(* Values are tagged records:                                              *)
(*   [t |-> "num", v]                       a scalar                       *)
(*   [t |-> "nd", kind, shape, flat]        a numpy array, C-order flat    *)
(*   [t |-> "list", items]                  a Python list                  *)
(*   [t |-> "dict", pairs]                  a Python dict, insertion order *)
(*   [t |-> "raise", exc]                   an exception leaving a call    *)
(* Raw h5py nodes:                                                         *)
(*   [t |-> "Dataset", kind, shape, flat, ok]   ok = FALSE: reading the    *)
(*                                              dataset raises OSError     *)
(*   [t |-> "Group", pairs]                                                *)
(*   [t |-> "Datatype"]                     a node that is neither         *)
(***************************************************************************)
EXTENDS Integers, Sequences, FiniteSets, TLC

VARIABLES mat_file, variable_names, version, pc, mode, calls, handle,
          used_after_close, i, data, exc, self_mat_file, self_data, raised, ret

vars == <<mat_file, variable_names, version, pc, mode, calls, handle,
          used_after_close, i, data, exc, self_mat_file, self_data, raised, ret>>

(* ------------------------------------------------------------------ *)
(* Bounds of the model                                                 *)
(* ------------------------------------------------------------------ *)

\* largest number of top-level entries of a hierarchical file
MaxKeys == 2

(* ------------------------------------------------------------------ *)
(* Program constants                                                   *)
(* ------------------------------------------------------------------ *)

\* the version threshold 7.2, in tenths
VersionThreshold == 72

\* defaults of load_h5py's keyword parameters; MatData never overrides them
squeeze_me == TRUE
simplify_cells == TRUE

(* ------------------------------------------------------------------ *)
(* Values                                                              *)
(* ------------------------------------------------------------------ *)

Num(n) == [t |-> "num", v |-> n]
NoValue == [t |-> "none"]
ndarray(kind, shape, flat) == [t |-> "nd", kind |-> kind, shape |-> shape, flat |-> flat]
list(items) == [t |-> "list", items |-> items]
dict(pairs) == [t |-> "dict", pairs |-> pairs]
Raise(e) == [t |-> "raise", exc |-> e]

Dataset(kind, shape, flat) ==
    [t |-> "Dataset", kind |-> kind, shape |-> shape, flat |-> flat, ok |-> TRUE]
Group(pairs) == [t |-> "Group", pairs |-> pairs]

\* dict helpers: keys in insertion order, membership, lookup
keys(d) == [j \in 1..Len(d.pairs) |-> d.pairs[j][1]]
KeySet(d) == {d.pairs[j][1] : j \in 1..Len(d.pairs)}
Lookup(d, k) == d.pairs[CHOOSE j \in 1..Len(d.pairs) : d.pairs[j][1] = k][2]

Reverse(s) == [j \in 1..Len(s) |-> s[Len(s) + 1 - j]]
Front(s) == SubSeq(s, 1, Len(s) - 1)
Min(S) == CHOOSE x \in S : \A y \in S : x <= y

RECURSIVE Prod(_)
Prod(s) == IF s = <<>> THEN 1 ELSE Head(s) * Prod(Tail(s))

\* zero-based C-order position of an index tuple, and back
RECURSIVE Ravel(_, _)
Ravel(idx, shape) ==
    IF shape = <<>> THEN 0
    ELSE Ravel(Front(idx), Front(shape)) * shape[Len(shape)] + idx[Len(idx)]

RECURSIVE Unravel(_, _)
Unravel(p, shape) ==
    IF shape = <<>> THEN <<>>
    ELSE Append(Unravel(p \div shape[Len(shape)], Front(shape)), p % shape[Len(shape)])

\* numpy .T: reverses the order of the axes
T(a) ==
    LET newshape == Reverse(a.shape)
    IN ndarray(a.kind, newshape,
               [p \in 1..Len(a.flat) |->
                   a.flat[Ravel(Reverse(Unravel(p - 1, newshape)), a.shape) + 1]])

\* numpy.squeeze: drops the axes of length 1
squeeze(a) == ndarray(a.kind, SelectSeq(a.shape, LAMBDA n : n # 1), a.flat)

\* numpy .item() of a 0-d array
item(a) == a.flat[1]

\* iteration over an array: its sub-arrays along the first axis (the elements
\* themselves when the array is 1-d)
Row(a, j) ==
    IF Len(a.shape) = 1 THEN a.flat[j]
    ELSE LET w == Prod(Tail(a.shape))
         IN ndarray(a.kind, Tail(a.shape), SubSeq(a.flat, (j - 1) * w + 1, j * w))

(* ------------------------------------------------------------------ *)
(* load_h5py's inner functions                                         *)
(* ------------------------------------------------------------------ *)

RECURSIVE _mat_to_dict(_)
RECURSIVE _simplify_shallow(_)
_mat_to_dict(mat_obj) ==
    IF mat_obj.t = "Dataset" THEN
        IF ~mat_obj.ok THEN Raise("OSError")
        ELSE LET data0 == ndarray(mat_obj.kind, mat_obj.shape, mat_obj.flat)
                 data1 == IF Len(data0.shape) > 1 THEN T(data0) ELSE data0
                 data2 == IF squeeze_me THEN squeeze(data1) ELSE data1
             IN IF data2.shape = <<>> THEN item(data2) ELSE data2
    ELSE IF mat_obj.t = "Group" THEN
        LET conv == [j \in 1..Len(mat_obj.pairs) |-> _mat_to_dict(mat_obj.pairs[j][2])]
            bad == {j \in 1..Len(conv) : conv[j].t = "raise"}
        IN IF bad # {} THEN conv[Min(bad)]
           ELSE dict([j \in 1..Len(conv) |-> <<mat_obj.pairs[j][1], conv[j]>>])
    ELSE Raise("TypeError")

\* _simplify without the recursion into the elements of a cell
_simplify_shallow(value) ==
    IF value.t = "nd" /\ value.kind = "O" THEN
        list([j \in 1..value.shape[1] |-> Row(value, j)])
    ELSE IF value.t = "dict" THEN
        dict([j \in 1..Len(value.pairs) |->
                 <<value.pairs[j][1], _simplify_shallow(value.pairs[j][2])>>])
    ELSE value

RECURSIVE _simplify(_)
_simplify(value) ==
    IF value.t = "nd" /\ value.kind = "O" THEN
        list([j \in 1..value.shape[1] |-> _simplify(Row(value, j))])
    ELSE IF value.t = "dict" THEN
        dict([j \in 1..Len(value.pairs) |->
                 <<value.pairs[j][1], _simplify(value.pairs[j][2])>>])
    ELSE value

(* ------------------------------------------------------------------ *)
(* Inputs: files, variable-name filters, versions                      *)
(* ------------------------------------------------------------------ *)

\* x = 5, stored as a 1x1 dataset
NodeScalar == Dataset("f", <<1, 1>>, <<Num(5)>>)
\* a cell array stored with shape (3, 2); one element is a nested cell, one a mapping
NodeCell ==
    Dataset("O", <<3, 2>>,
            <<Num(1), Num(2), Num(3), Num(4),
              ndarray("O", <<2>>, <<Num(7), Num(8)>>),
              dict(<< <<"k", ndarray("O", <<1>>, <<Num(9)>>)>> >>)>>)
\* a struct: a group holding a cell column {1, 2} and a 2x3 matrix
NodeGroup ==
    Group(<< <<"f2", Dataset("O", <<2, 1>>, <<Num(1), Num(2)>>)>>,
             <<"f1", Dataset("f", <<2, 3>>, <<Num(1), Num(2), Num(3), Num(4), Num(5), Num(6)>>)>> >>)
\* a node that is neither dataset nor group, at top level and nested in a group
NodeDatatype == [t |-> "Datatype"]
NodeBadGroup == Group(<< <<"f1", NodeScalar>>, <<"f2", NodeDatatype>> >>)
\* a dataset whose contents cannot be read
NodeUnreadable == [NodeScalar EXCEPT !.ok = FALSE]

Nodes == {NodeScalar, NodeCell, NodeGroup, NodeDatatype, NodeBadGroup, NodeUnreadable}

StoreKeys == {"a", "b", "c"}
\* names a caller may request: two that a file may hold, one that no file holds
Names == {"a", "b", "z"}

Injective(s) == \A j, k \in 1..Len(s) : j # k => s[j] # s[k]
\* the orders in which a set may be iterated
Perms(S) == {s \in [1..Cardinality(S) -> S] : Injective(s)}

\* the top-level contents of a hierarchical file, in the store's iteration order
Stores ==
    UNION {{[j \in 1..n |-> <<ks[j], ns[j]>>] : ks \in {s \in [1..n -> StoreKeys] : Injective(s)},
                                                 ns \in [1..n -> Nodes]} : n \in 0..MaxKeys}

\* what the legacy reader yields for a legacy-format file
LegacyVars == dict(<< <<"b", Num(2)>>, <<"a", Num(1)>> >>)

\* the mat_file argument together with the file system behind it:
\* kind    "Path" (pathlib.Path) or "PurePath" (an os.PathLike without exists())
\* exists  whether the path references an existing file
\* fmt     "hdf5", "legacy", or "other" (no MAT file at all)
Files ==
    {[kind |-> k, exists |-> FALSE, fmt |-> "other", store |-> <<>>] : k \in {"Path", "PurePath"}}
    \cup {[kind |-> k, exists |-> TRUE, fmt |-> f, store |-> <<>>] :
              k \in {"Path", "PurePath"}, f \in {"legacy", "other"}}
    \cup {[kind |-> "PurePath", exists |-> TRUE, fmt |-> "hdf5", store |-> <<>>]}
    \cup {[kind |-> "Path", exists |-> TRUE, fmt |-> "hdf5", store |-> s] : s \in Stores}

\* variable_names: None, or a collection of names
VariableNames ==
    {[given |-> FALSE, names |-> {}]} \cup {[given |-> TRUE, names |-> S] : S \in SUBSET Names}

\* version: None, or a number (in tenths: 72 is 7.2)
Versions ==
    {[given |-> FALSE, v |-> 0]} \cup {[given |-> TRUE, v |-> n] : n \in {0, 50, 72, 73}}

\* Python truthiness of the two optional arguments
TruthyNames(vn) == vn.given /\ vn.names # {}
TruthyVersion(ver) == ver.given /\ ver.v # 0

NoError == [type |-> "None", wrapped |-> FALSE, cause |-> "None"]
NoRet == [op |-> "none", status |-> "none", val |-> NoValue, keys |-> <<>>]

Init ==
    /\ mat_file \in Files
    /\ variable_names \in VariableNames
    /\ version \in Versions
    /\ pc = "start"
    /\ mode = "none"
    /\ calls = <<>>
    /\ handle = "none"
    /\ used_after_close = FALSE
    /\ i = 0
    /\ data = dict(<<>>)
    /\ exc = "None"
    /\ self_mat_file = "unset"
    /\ self_data = NoValue
    /\ raised = NoError
    /\ ret = NoRet

(* ------------------------------------------------------------------ *)
(* load_scipy                                                          *)
(* ------------------------------------------------------------------ *)

\* scipy.io.loadmat, the external legacy reader: it parses legacy files only and
\* returns the variables of the file, restricted to variable_names when given
loadmat(file, vn) ==
    IF file.fmt = "legacy" THEN
        IF vn.given
        THEN dict(SelectSeq(LegacyVars.pairs, LAMBDA kv : kv[1] \in vn.names))
        ELSE LegacyVars
    ELSE IF file.fmt = "hdf5" THEN Raise("NotImplementedError")
    ELSE Raise("ValueError")

load_scipy(file, vn) == loadmat(file, vn)

(* ------------------------------------------------------------------ *)
(* MatData.__init__, up to the choice of the adapter                   *)
(* ------------------------------------------------------------------ *)

\* load_method: "None", "load_scipy" or "load_h5py"
load_method(ver) ==
    IF TruthyVersion(ver)
    THEN (IF ver.v <= VersionThreshold THEN "load_scipy" ELSE "load_h5py")
    ELSE "None"

Fail(type, wrapped, cause) ==
    /\ raised' = [type |-> type, wrapped |-> wrapped, cause |-> cause]
    /\ pc' = "failed"

\* the wrapped condition: Exception("Error loading mat file: ...") from e
FailWrapped(cause) == Fail("Exception", TRUE, cause)

Construct ==
    /\ pc = "start"
    /\ self_mat_file' = "Path(mat_file)"
    /\ IF mat_file.kind # "Path"
       THEN \* mat_file.exists() on an object without that method
            /\ Fail("AttributeError", FALSE, "None")
            /\ UNCHANGED mode
       ELSE IF ~mat_file.exists
       THEN /\ Fail("FileNotFoundError", FALSE, "None")
            /\ UNCHANGED mode
       ELSE /\ mode' = IF load_method(version) = "None" THEN "fallback" ELSE "declared"
            /\ pc' = IF load_method(version) = "load_scipy" THEN "scipy" ELSE "h5py_open"
            /\ UNCHANGED raised
    /\ UNCHANGED <<mat_file, variable_names, version, calls, handle, used_after_close,
                   i, data, exc, self_data, ret>>

(* ------------------------------------------------------------------ *)
(* load_h5py, statement by statement                                   *)
(* ------------------------------------------------------------------ *)

\* with h5py.File(mat_file, 'r') as mat:
H5Open ==
    /\ pc = "h5py_open"
    /\ calls' = Append(calls, "load_h5py")
    /\ IF mat_file.fmt = "hdf5"
       THEN /\ handle' = "open"
            /\ pc' = "h5py_convert"
            /\ i' = 1
            /\ UNCHANGED exc
       ELSE /\ exc' = "OSError"
            /\ pc' = "h5py_raise"
            /\ UNCHANGED <<handle, i>>
    /\ data' = dict(<<>>)
    /\ UNCHANGED <<mat_file, variable_names, version, mode, used_after_close,
                   self_mat_file, self_data, raised, ret>>

\* H5Convert with the filter applied first: entries that were not requested are skipped
H5ConvertRequested ==
    /\ pc = "h5py_convert"
    /\ used_after_close' = (used_after_close \/ handle # "open")
    /\ IF i > Len(mat_file.store)
       THEN /\ pc' = "h5py_simplify"
            /\ UNCHANGED <<i, data, exc>>
       ELSE LET k == mat_file.store[i][1]
                r == _mat_to_dict(mat_file.store[i][2])
            IN IF TruthyNames(variable_names) /\ k \notin variable_names.names
               THEN /\ i' = i + 1
                    /\ UNCHANGED <<pc, exc, data>>
               ELSE IF r.t = "raise"
               THEN /\ exc' = r.exc
                    /\ pc' = "h5py_exit"
                    /\ UNCHANGED <<i, data>>
               ELSE /\ data' = dict(Append(data.pairs, <<k, r>>))
                    /\ i' = i + 1
                    /\ UNCHANGED <<pc, exc>>
    /\ UNCHANGED <<mat_file, variable_names, version, mode, calls, handle,
                   self_mat_file, self_data, raised, ret>>

\* data = {k: _mat_to_dict(v) for k, v in mat.items()}, one entry per step
H5Convert ==
    /\ pc = "h5py_convert"
    /\ used_after_close' = (used_after_close \/ handle # "open")
    /\ IF i > Len(mat_file.store)
       THEN /\ pc' = "h5py_simplify"
            /\ UNCHANGED <<i, data, exc>>
       ELSE LET k == mat_file.store[i][1]
                r == _mat_to_dict(mat_file.store[i][2])
            IN IF r.t = "raise"
               THEN /\ exc' = r.exc
                    /\ pc' = "h5py_exit"
                    /\ UNCHANGED <<i, data>>
               ELSE /\ data' = dict(Append(data.pairs, <<k, r>>))
                    /\ i' = i + 1
                    /\ UNCHANGED <<pc, exc>>
    /\ UNCHANGED <<mat_file, variable_names, version, mode, calls, handle,
                   self_mat_file, self_data, raised, ret>>

\* if simplify_cells: data = _simplify(data)
H5Simplify ==
    /\ pc = "h5py_simplify"
    /\ data' = IF simplify_cells THEN _simplify(data) ELSE data
    /\ pc' = "h5py_filter"
    /\ UNCHANGED <<mat_file, variable_names, version, mode, calls, handle, used_after_close,
                   i, exc, self_mat_file, self_data, raised, ret>>

\* H5Filter indexing the mapping by every requested name: an absent name raises KeyError
H5FilterStrict ==
    /\ pc = "h5py_filter"
    /\ IF TruthyNames(variable_names)
       THEN IF variable_names.names \subseteq KeySet(data)
            THEN /\ \E order \in Perms(variable_names.names) :
                        data' = dict([j \in 1..Len(order) |-> <<order[j], Lookup(data, order[j])>>])
                 /\ UNCHANGED exc
            ELSE /\ exc' = "KeyError"
                 /\ UNCHANGED data
       ELSE UNCHANGED <<data, exc>>
    /\ pc' = "h5py_exit"
    /\ UNCHANGED <<mat_file, variable_names, version, mode, calls, handle, used_after_close,
                   i, self_mat_file, self_data, raised, ret>>

\* H5Filter without the `if variable_names:` guard: None or an empty collection filters too
H5FilterAlways ==
    /\ pc = "h5py_filter"
    /\ \E order \in Perms(KeySet(data) \cap variable_names.names) :
           data' = dict([j \in 1..Len(order) |-> <<order[j], Lookup(data, order[j])>>])
    /\ pc' = "h5py_exit"
    /\ UNCHANGED <<mat_file, variable_names, version, mode, calls, handle, used_after_close,
                   i, exc, self_mat_file, self_data, raised, ret>>

\* if variable_names: variables = set(data.keys()) & set(variable_names)
\*                    data = {var: data[var] for var in variables}
\* the comprehension follows the iteration order of the set `variables`
H5Filter ==
    /\ pc = "h5py_filter"
    /\ IF TruthyNames(variable_names)
       THEN \E order \in Perms(KeySet(data) \cap variable_names.names) :
                data' = dict([j \in 1..Len(order) |-> <<order[j], Lookup(data, order[j])>>])
       ELSE UNCHANGED data
    /\ pc' = "h5py_exit"
    /\ UNCHANGED <<mat_file, variable_names, version, mode, calls, handle, used_after_close,
                   i, exc, self_mat_file, self_data, raised, ret>>

\* H5Exit that closes the file on the normal path only
H5ExitLeak ==
    /\ pc = "h5py_exit"
    /\ handle' = IF exc = "None" THEN "closed" ELSE handle
    /\ pc' = IF exc = "None" THEN "h5py_return" ELSE "h5py_raise"
    /\ UNCHANGED <<mat_file, variable_names, version, mode, calls, used_after_close,
                   i, data, exc, self_mat_file, self_data, raised, ret>>

\* leaving the with block, by `return data` or by an exception: the file is closed
H5Exit ==
    /\ pc = "h5py_exit"
    /\ handle' = "closed"
    /\ pc' = IF exc = "None" THEN "h5py_return" ELSE "h5py_raise"
    /\ UNCHANGED <<mat_file, variable_names, version, mode, calls, used_after_close,
                   i, data, exc, self_mat_file, self_data, raised, ret>>

(* ------------------------------------------------------------------ *)
(* MatData.__init__, around the adapter calls                          *)
(* ------------------------------------------------------------------ *)

\* self.data = load_method(...) / self.data = load_h5py(...) returned
CtorH5Return ==
    /\ pc = "h5py_return"
    /\ self_data' = data
    /\ pc' = "done"
    /\ UNCHANGED <<mat_file, variable_names, version, mode, calls, handle, used_after_close,
                   i, data, exc, self_mat_file, raised, ret>>

\* load_h5py raised: `except Exception` on the declared path, `except OSError`
\* on the path without a declared version
CtorH5Raise ==
    /\ pc = "h5py_raise"
    /\ IF mode = "declared"
       THEN FailWrapped(exc)
       ELSE IF exc = "OSError"
       THEN /\ pc' = "scipy"
            /\ UNCHANGED raised
       ELSE Fail(exc, FALSE, "None")
    /\ UNCHANGED <<mat_file, variable_names, version, mode, calls, handle, used_after_close,
                   i, data, exc, self_mat_file, self_data, ret>>

\* self.data = load_scipy(mat_file, variable_names), under `except Exception`
CtorScipy ==
    /\ pc = "scipy"
    /\ calls' = Append(calls, "load_scipy")
    /\ LET r == load_scipy(mat_file, variable_names)
       IN IF r.t = "raise"
          THEN /\ FailWrapped(r.exc)
               /\ UNCHANGED self_data
          ELSE /\ self_data' = r
               /\ pc' = "done"
               /\ UNCHANGED raised
    /\ UNCHANGED <<mat_file, variable_names, version, mode, handle, used_after_close,
                   i, data, exc, self_mat_file, ret>>

(* ------------------------------------------------------------------ *)
(* Accessors                                                           *)
(* ------------------------------------------------------------------ *)

\* every name a caller may look up
LookupNames == StoreKeys \cup Names

\* get in the manner of dict.get: an absent name yields no error
get_default(d, var) ==
    IF var \notin KeySet(d)
    THEN [op |-> "get", status |-> "ok", val |-> NoValue, keys |-> <<var>>]
    ELSE [op |-> "get", status |-> "ok", val |-> Lookup(d, var), keys |-> <<var>>]

get(d, var) ==
    IF var \notin KeySet(d)
    THEN [op |-> "get", status |-> "KeyError", val |-> NoValue, keys |-> <<var>>]
    ELSE [op |-> "get", status |-> "ok", val |-> Lookup(d, var), keys |-> <<var>>]

Get ==
    /\ pc = "done"
    /\ \E var \in LookupNames : ret' = get(self_data, var)
    /\ UNCHANGED <<mat_file, variable_names, version, pc, mode, calls, handle,
                   used_after_close, i, data, exc, self_mat_file, self_data, raised>>

GetKeys ==
    /\ pc = "done"
    /\ ret' = [op |-> "get_keys", status |-> "ok", val |-> NoValue, keys |-> keys(self_data)]
    /\ UNCHANGED <<mat_file, variable_names, version, pc, mode, calls, handle,
                   used_after_close, i, data, exc, self_mat_file, self_data, raised>>

GetFile ==
    /\ pc = "done"
    /\ ret' = [op |-> "get_file", status |-> "ok", val |-> NoValue, keys |-> <<self_mat_file>>]
    /\ UNCHANGED <<mat_file, variable_names, version, pc, mode, calls, handle,
                   used_after_close, i, data, exc, self_mat_file, self_data, raised>>

Repr ==
    /\ pc = "done"
    /\ ret' = [op |-> "__repr__", status |-> "ok", val |-> NoValue,
               keys |-> <<self_mat_file>> \o keys(self_data)]
    /\ UNCHANGED <<mat_file, variable_names, version, pc, mode, calls, handle,
                   used_after_close, i, data, exc, self_mat_file, self_data, raised>>

Next ==
    \/ Construct
    \/ H5Open
    \/ H5Convert
    \/ H5Simplify
    \/ H5Filter
    \/ H5Exit
    \/ CtorH5Return
    \/ CtorH5Raise
    \/ CtorScipy
    \/ Get
    \/ GetKeys
    \/ GetFile
    \/ Repr

Spec == Init /\ [][Next]_vars

TypeOK ==
    /\ pc \in {"start", "h5py_open", "h5py_convert", "h5py_simplify", "h5py_filter",
               "h5py_exit", "h5py_return", "h5py_raise", "scipy", "done", "failed"}
    /\ handle \in {"none", "open", "closed"}
    /\ mode \in {"none", "declared", "fallback"}

(* ------------------------------------------------------------------ *)
(* Vocabulary of the properties                                        *)
(* ------------------------------------------------------------------ *)

Terminated == pc \in {"done", "failed"}
StoreKeySeq == [j \in 1..Len(mat_file.store) |-> mat_file.store[j][1]]
StoreKeySet == {mat_file.store[j][1] : j \in 1..Len(mat_file.store)}
Requested(k) == k \in variable_names.names
IsCell(v) == v.t = "nd" /\ v.kind = "O"

\* the mapping of all top-level entries, converted and simplified, before any filter
Unfiltered ==
    _simplify(dict([j \in 1..Len(mat_file.store) |->
                       <<mat_file.store[j][1], _mat_to_dict(mat_file.store[j][2])>>]))

\* the node holds, at any depth, a node that is neither dataset nor group
RECURSIVE ContainsDatatype(_)
ContainsDatatype(n) ==
    IF n.t = "Group" THEN \E j \in 1..Len(n.pairs) : ContainsDatatype(n.pairs[j][2])
    ELSE n.t # "Dataset"

\* the node holds, at any depth, a dataset that cannot be read
RECURSIVE ContainsUnreadable(_)
ContainsUnreadable(n) ==
    IF n.t = "Group" THEN \E j \in 1..Len(n.pairs) : ContainsUnreadable(n.pairs[j][2])
    ELSE n.t = "Dataset" /\ ~n.ok

\* no object-typed array is left anywhere in the value
RECURSIVE NoObjectArrays(_)
NoObjectArrays(x) ==
    IF x.t = "nd" THEN x.kind # "O"
    ELSE IF x.t = "list" THEN \A j \in 1..Len(x.items) : NoObjectArrays(x.items[j])
    ELSE IF x.t = "dict" THEN \A j \in 1..Len(x.pairs) : NoObjectArrays(x.pairs[j][2])
    ELSE TRUE

\* x is a nest of lists, one level per axis, each level as long as its axis
RECURSIVE NestOfShape(_, _)
NestOfShape(x, shape) ==
    IF shape = <<>> THEN TRUE
    ELSE /\ x.t = "list"
         /\ Len(x.items) = Head(shape)
         /\ \A j \in 1..Len(x.items) : NestOfShape(x.items[j], Tail(shape))

(* ------------------------------------------------------------------ *)
(* C1                                                                  *)
(* ------------------------------------------------------------------ *)

\* C1 (as claimed): with no declared version, once load_h5py has opened the file and
\* then failed (a failure other than "not a hierarchical container"), construction
\* fails, load_scipy is not tried, and the caller gets the wrapped
\* "Error loading mat file" condition whose cause is the original failure.
C1_FatalWrapped ==
    (~version.given /\ Terminated /\ handle = "closed" /\ exc # "None")
        => /\ pc = "failed"
           /\ calls = <<"load_h5py">>
           /\ raised = [type |-> "Exception", wrapped |-> TRUE, cause |-> exc]

(* ------------------------------------------------------------------ *)
(* C2                                                                  *)
(* ------------------------------------------------------------------ *)

\* C2 (as claimed): for every declared version number, a construction that gets past
\* the existence check invokes exactly one adapter, load_scipy if version <= 7.2 and
\* load_h5py otherwise, and a failure of that adapter is surfaced wrapped.
C2_DeclaredVersionOneAdapter ==
    (version.given /\ Terminated /\ raised.type \notin {"FileNotFoundError", "AttributeError"})
        => /\ calls = <<IF version.v <= VersionThreshold THEN "load_scipy" ELSE "load_h5py">>
           /\ pc = "failed" => (raised.type = "Exception" /\ raised.wrapped)

(* ------------------------------------------------------------------ *)
(* C3                                                                  *)
(* ------------------------------------------------------------------ *)

\* C3 (as claimed): with no declared version, on an existing file that is not a
\* hierarchical container, load_h5py is attempted first and load_scipy exactly once
\* after it; construction succeeds with load_scipy's mapping when load_scipy
\* succeeds and fails with the wrapped condition when it fails.
C3_FallbackToLegacy ==
    (~version.given /\ mat_file.exists /\ mat_file.fmt # "hdf5" /\ Terminated)
        => /\ calls = <<"load_h5py", "load_scipy">>
           /\ IF load_scipy(mat_file, variable_names).t = "raise"
              THEN pc = "failed" /\ raised.type = "Exception" /\ raised.wrapped
              ELSE pc = "done" /\ self_data = load_scipy(mat_file, variable_names)

(* ------------------------------------------------------------------ *)
(* C4                                                                  *)
(* ------------------------------------------------------------------ *)

\* C4 (as claimed): constructing with a path that references no existing file fails
\* with "file not found" and invokes no adapter, whatever the other arguments are.
C4_MissingFileNotFound ==
    (~mat_file.exists /\ pc # "start")
        => /\ pc = "failed"
           /\ raised.type = "FileNotFoundError"
           /\ calls = <<>>

(* ------------------------------------------------------------------ *)
(* C5                                                                  *)
(* ------------------------------------------------------------------ *)

\* C5: load_h5py raises only if the conversion of some top-level entry raises (never
\* because a requested name is absent); the mapping it returns has each key once,
\* its key set is (file keys) \cap (requested names) for a non-empty request and all
\* file keys for None or an empty request, and every key keeps the value it has in
\* the unfiltered result.
C5_FilterIsIntersection ==
    /\ (pc = "h5py_raise" /\ mat_file.fmt = "hdf5")
          => \E j \in 1..Len(mat_file.store) :
                 \/ ContainsDatatype(mat_file.store[j][2])
                 \/ ContainsUnreadable(mat_file.store[j][2])
    /\ pc = "h5py_return"
          => /\ KeySet(data) = IF TruthyNames(variable_names)
                               THEN StoreKeySet \cap variable_names.names
                               ELSE StoreKeySet
             /\ Injective(keys(data))
             /\ \A k \in KeySet(data) : Lookup(data, k) = Lookup(Unfiltered, k)

\* a request naming an absent variable and only some of the present ones was served
C5_Witness ==
    /\ pc = "h5py_return"
    /\ "z" \in variable_names.names
    /\ StoreKeySet \cap variable_names.names # {}
    /\ StoreKeySet \ variable_names.names # {}
    /\ KeySet(data) = StoreKeySet \cap variable_names.names

(* ------------------------------------------------------------------ *)
(* C6                                                                  *)
(* ------------------------------------------------------------------ *)

\* the mapping the adapter returned to the constructor
LoadedAtConstruction ==
    IF calls[Len(calls)] = "load_h5py" THEN data ELSE load_scipy(mat_file, variable_names)

\* C6: after a successful construction and any sequence of accessor calls the object
\* still holds exactly the mapping loaded at construction, and the last get(name)
\* ended with the KeyError naming name when name is no key of that mapping and
\* returned the value stored for name when it is.
C6_AccessorsReadOnly ==
    pc = "done"
        => /\ self_data = LoadedAtConstruction
           /\ ret.op = "get"
                 => LET var == ret.keys[1]
                    IN IF var \in KeySet(LoadedAtConstruction)
                       THEN ret.status = "ok" /\ ret.val = Lookup(LoadedAtConstruction, var)
                       ELSE ret.status = "KeyError" /\ ret.val = NoValue

\* a lookup of an absent name, on an object that holds some variables
C6_Witness ==
    /\ pc = "done"
    /\ ret.op = "get"
    /\ ret.status = "KeyError"
    /\ self_data.pairs # <<>>

(* ------------------------------------------------------------------ *)
(* C7                                                                  *)
(* ------------------------------------------------------------------ *)

\* C7 (as claimed): every object-typed array is simplified to a list whose length is
\* the array's total element count.
C7_ListLengthIsElementCount ==
    pc = "h5py_filter"
        => \A j \in 1..Len(mat_file.store) :
               LET v == _mat_to_dict(mat_file.store[j][2])
                   r == Lookup(data, mat_file.store[j][1])
               IN IsCell(v) => (r.t = "list" /\ Len(r.items) = Prod(v.shape))

\* C7 (amended): every object-typed array of one or more axes is simplified to a nest
\* of lists, one level per axis: the outer list is as long as the first axis, and
\* the innermost level holds the array's elements; every element is itself
\* simplified (no object-typed array is left at any depth), and a mapping keeps
\* its keys, in order.
C7_ListPerAxis ==
    pc = "h5py_filter"
        => \A j \in 1..Len(mat_file.store) :
               LET v == _mat_to_dict(mat_file.store[j][2])
                   r == Lookup(data, mat_file.store[j][1])
               IN /\ IsCell(v) => /\ r.t = "list"
                                  /\ Len(r.items) = v.shape[1]
                                  /\ NestOfShape(r, v.shape)
                                  /\ NoObjectArrays(r)
                  /\ v.t = "dict" => /\ r.t = "dict"
                                     /\ keys(r) = keys(v)
                                     /\ NoObjectArrays(r)

\* a cell array of two axes, holding a nested cell, has been simplified
C7_Witness ==
    /\ pc = "h5py_filter"
    /\ \E j \in 1..Len(mat_file.store) :
           LET v == _mat_to_dict(mat_file.store[j][2])
           IN /\ IsCell(v)
              /\ Len(v.shape) > 1
              /\ \E p \in 1..Len(v.flat) : IsCell(v.flat[p])

(* ------------------------------------------------------------------ *)
(* C8                                                                  *)
(* ------------------------------------------------------------------ *)

\* C8 (as claimed): for data loaded by load_h5py, get_keys lists the keys that
\* survive the filter in the relative order they have in the store.
C8_KeysInStoreOrder ==
    (pc = "done" /\ calls = <<"load_h5py">> /\ ret.op = "get_keys")
        => ret.keys = SelectSeq(StoreKeySeq,
                                LAMBDA k : TruthyNames(variable_names) => Requested(k))

\* C8 (amended): for data loaded by load_h5py, get_keys follows the store's iteration
\* order when no filter applies (variable_names None or empty); with a non-empty
\* filter it lists each surviving key exactly once, in an unspecified order (the
\* iteration order of a set).
C8_KeysOrderUnlessFiltered ==
    (pc = "done" /\ calls = <<"load_h5py">> /\ ret.op = "get_keys")
        => IF TruthyNames(variable_names)
           THEN ret.keys \in Perms(StoreKeySet \cap variable_names.names)
           ELSE ret.keys = StoreKeySeq

\* the keys of a filtered load with two survivors were listed
C8_Witness ==
    /\ pc = "done"
    /\ calls = <<"load_h5py">>
    /\ ret.op = "get_keys"
    /\ TruthyNames(variable_names)
    /\ Len(ret.keys) = 2

(* ------------------------------------------------------------------ *)
(* C9                                                                  *)
(* ------------------------------------------------------------------ *)

\* C9: once load_h5py has opened the file, the file is closed whenever control is
\* back in the caller (after a return and after any exception), and no statement
\* of load_h5py uses the file while it is closed.
C9_HandleClosed ==
    /\ (pc \in {"h5py_return", "h5py_raise", "scipy", "done", "failed"}) => handle # "open"
    /\ (pc \in {"h5py_return", "h5py_raise"} /\ mat_file.fmt = "hdf5") => handle = "closed"
    /\ pc \in {"h5py_convert", "h5py_simplify", "h5py_filter", "h5py_exit"} => handle = "open"
    /\ ~used_after_close

\* load_h5py has raised the unsupported-type error out of an opened file
C9_Witness ==
    /\ pc = "h5py_raise"
    /\ exc = "TypeError"
    /\ handle = "closed"

(* ------------------------------------------------------------------ *)
(* C10                                                                 *)
(* ------------------------------------------------------------------ *)

====
